---------------------------- MODULE Spec2Model ----------------------------
(***************************************************************************)
(* Retail creative studio: the editor store (layout, undo history,         *)
(* validation result, loading flag), the validation round trip, the export *)
(* gate and the two auto-fix resolvers (DesignAssistant, ValidatorPanel).  *)
(*                                                                         *)
(* Conventions: an optional number that is absent is U, an absent string   *)
(* is "", an absent colour is <<>>.  A colour is the sequence of its hex   *)
(* digits (0..15) after the leading '#'.  Positions and sizes are          *)
(* percentages of the canvas.                                              *)
(***************************************************************************)
EXTENDS Integers, Sequences, FiniteSets, Bags, TLC

VARIABLES
    layout,            \* store.layout (NullLayout when null)
    history,           \* store.history
    historyIndex,      \* store.historyIndex (0-based, as in the code)
    validationResult,  \* store.validationResult (NullResult when null)
    isLoading,         \* store.isLoading
    canvasSize,        \* store.canvasSize
    isAlcohol,         \* store.isAlcohol
    selectedChannel,   \* store.selectedChannel
    inflight,          \* bag of validation requests awaiting a response
    timer,             \* App's pending auto-validate timeout
    showExportDialog,  \* App.showExportDialog
    exportChannels,    \* ExportDialog.selectedChannels.length
    isExporting,       \* ExportDialog.isExporting (an export request is in flight)
    exportStart,       \* what handleExport found in the store when it started
    batch,             \* the running Fix All loop
    console,           \* codes logged by 'No auto-fix available for:'
    calls,             \* (resolved value, outcome) of the applyAutoFix calls made
    edits,             \* number of user edits made so far
    fx,                \* resolver harness: layout, issue, panel and outputs
    selectedIndex,     \* CreativeCanvas.selectedIndex (0-based; U when null)
    snap,              \* geometry harness: inputs and result of a snap function
    op,                \* the last two store operations and the state before them
    burst,             \* validation requests caused since the last quiet period
    thrown,            \* functions that have thrown to their caller
    suggestions        \* store.suggestions

vars == <<layout, history, historyIndex, validationResult, isLoading,
          canvasSize, isAlcohol, selectedChannel, inflight, timer,
          showExportDialog, exportChannels, isExporting, exportStart,
          batch, console, calls, edits, fx, selectedIndex, snap, op, burst,
          thrown, suggestions>>

\* CreativeCanvas state, the geometry harness and the history variables
auxVars == <<selectedIndex, snap, op, burst, thrown, suggestions>>

storeVars == <<layout, history, historyIndex, validationResult, isLoading,
               canvasSize, isAlcohol, selectedChannel>>

-----------------------------------------------------------------------------
(* Bounds of the model *)

\* edits of the layout made by the user on the canvas or through the store
MaxEdits == 2

\* auto-fix clicks (one issue or Fix All)
MaxFixes == 1

\* undo steps back from the newest history entry, when the store operations
\* are called in any order
MaxUndos == 2

\* snap points handed to findSnapPosition
MaxPoints == 3

\* requests in flight when a canvas edit or an auto-fix sends one more
MaxInflight == 1

\* requests in flight when App.handleValidate sends one more
MaxAppInflight == 2

-----------------------------------------------------------------------------
(* Scene model *)

U == -1

MAX_HISTORY == 50

Black == <<0, 0, 0, 0, 0, 0>>

White == <<15, 15, 15, 15, 15, 15>>

Gray800 == <<1, 15, 2, 9, 3, 7>>

Gray500 == <<6, 11, 7, 2, 8, 0>>

NoColor == <<>>

El(type, asset, x, y, width, height, text, font_size, color) ==
    [type |-> type, asset |-> asset, x |-> x, y |-> y, width |-> width,
     height |-> height, text |-> text, font_size |-> font_size, color |-> color]

NullLayout == [id |-> "null", elements |-> <<>>]

DefaultLayout ==
    [id |-> "default-layout",
     elements |-> <<
        El("background", "", U, U, U, U, "", U, White),
        El("headline", "", 10, 30, 80, 15, "Click to edit headline", 48, Gray800),
        El("subhead", "", 10, 48, 80, 8, "Add your subheadline here", 24, Gray500),
        El("tesco_tag", "", 70, 85, 25, 8, "Available at Tesco", U, NoColor) >>]

\* x || 0
OrZero(v) == IF v = U THEN 0 ELSE v

\* elements.map(f)
MapElements(elements, f(_)) == [i \in 1..Len(elements) |-> f(elements[i])]

\* JSON.parse(JSON.stringify(layout)): every field is written out and read
\* back; a field whose value is undefined is dropped and is absent again.
JsonClone(l) ==
    [id |-> l.id,
     elements |-> [i \in 1..Len(l.elements) |->
        [f \in DOMAIN l.elements[i] |-> l.elements[i][f]]]]

-----------------------------------------------------------------------------
(* Validation issues and results *)

Issue(severity, code, element_id, hasFix) ==
    [severity |-> severity, code |-> code, element_id |-> element_id,
     fix_suggestion |-> hasFix]

NullResult == [isNull |-> TRUE, ok |-> TRUE, issues |-> <<>>, forLayout |-> NullLayout]

Result(issues, l) ==
    [isNull |-> FALSE,
     ok |-> \A i \in 1..Len(issues) : issues[i].severity # "hard",
     issues |-> issues,
     forLayout |-> l]

\* validationResult?.issues.some((i) => i.severity === 'hard')
HasErrorsOf(r) ==
    /\ ~r.isNull
    /\ \E i \in 1..Len(r.issues) : r.issues[i].severity = "hard"

hasErrors == HasErrorsOf(validationResult)


-----------------------------------------------------------------------------
(* Auto-fix resolvers *)

\* parseInt(c.substr(i, 2), 16) of the colour's hex digits
HexPair(c, i) == 16 * c[i] + c[i + 1]

\* (r * 299 + g * 587 + b * 114) / 1000 > 128, kept exact by scaling by 1000
isLightColor(hex) ==
    LET r == HexPair(hex, 1)
        g == HexPair(hex, 3)
        b == HexPair(hex, 5)
    IN  r * 299 + g * 587 + b * 114 > 128 * 1000

\* newLayout.elements.find(e => e.type === 'background')?.color || '#FFFFFF'
BgColorOf(elements) ==
    LET idx == {i \in 1..Len(elements) : elements[i].type = "background"}
    IN  IF idx = {} THEN White
        ELSE LET first == CHOOSE i \in idx : \A j \in idx : i <= j
             IN  IF elements[first].color = NoColor THEN White
                 ELSE elements[first].color

TescoTagElement ==
    El("tesco_tag", "", 65, 88, 30, 8, "Available at Tesco", U, NoColor)

\* a disclaimer element that is added in the colour of the default headline
DrinkawareElement_Gray(y) == El("drinkaware", "", 35, y, 30, 3, "", U, Gray800)

DrinkawareElement(y) == El("drinkaware", "", 35, y, 30, 3, "", U, Black)

FixTescoText(e) ==
    IF e.type = "tesco_tag" THEN [e EXCEPT !.text = "Available at Tesco"] ELSE e

FixDrinkawareColor(e) ==
    IF e.type = "drinkaware" THEN [e EXCEPT !.color = Black] ELSE e

IsText(e) == e.type = "headline" \/ e.type = "subhead"

DAFixFont(e) ==
    IF IsText(e) /\ OrZero(e.font_size) < 20
    THEN [e EXCEPT !.font_size = IF e.type = "headline" THEN 48 ELSE 24]
    ELSE e

DAFixTop(e) ==
    IF e.type # "background" /\ OrZero(e.y) < 12 THEN [e EXCEPT !.y = 15] ELSE e

DAFixBottom(e) ==
    IF /\ e.type # "background"
       /\ e.type # "tesco_tag"
       /\ OrZero(e.y) + OrZero(e.height) > 87
    THEN [e EXCEPT !.y = 70]
    ELSE e

DAContrastColor(isLightBg) == IF isLightBg THEN Gray800 ELSE White

DAFixContrast(e, isLightBg) ==
    IF IsText(e) THEN [e EXCEPT !.color = DAContrastColor(isLightBg)] ELSE e

DAMappedCodes ==
    {"TESCO_TAG_MISSING", "TESCO_TAG_INVALID", "FONT_SIZE_TOO_SMALL",
     "SAFE_ZONE_TOP_VIOLATION", "SAFE_ZONE_BOTTOM_VIOLATION",
     "DRINKAWARE_MISSING", "DRINKAWARE_COLOR_INVALID", "WCAG_CONTRAST_FAIL"}

\* The switch of DesignAssistant.applyAutoFix: the elements of newLayout for a
\* mapped code.
DAElements(elements, issue) ==
    CASE issue.code = "TESCO_TAG_MISSING" -> Append(elements, TescoTagElement)
      [] issue.code = "TESCO_TAG_INVALID" -> MapElements(elements, FixTescoText)
      [] issue.code = "FONT_SIZE_TOO_SMALL" -> MapElements(elements, DAFixFont)
      [] issue.code = "SAFE_ZONE_TOP_VIOLATION" -> MapElements(elements, DAFixTop)
      [] issue.code = "SAFE_ZONE_BOTTOM_VIOLATION" -> MapElements(elements, DAFixBottom)
      [] issue.code = "DRINKAWARE_MISSING" -> Append(elements, DrinkawareElement(94))
      [] issue.code = "DRINKAWARE_COLOR_INVALID" -> MapElements(elements, FixDrinkawareColor)
      [] issue.code = "WCAG_CONTRAST_FAIL" ->
            LET isLightBg == isLightColor(BgColorOf(elements))
                f(e) == DAFixContrast(e, isLightBg)
            IN  MapElements(elements, f)
      [] OTHER -> elements

VPFixFont(e) ==
    IF IsText(e) /\ OrZero(e.font_size) < 20 THEN [e EXCEPT !.font_size = 20] ELSE e

\* issue.element_id && e.type === issue.element_id.split('-')[0]
\* (element_id is kept as the sequence of its '-'-separated parts)
VPTargets(e, issue) ==
    /\ issue.element_id # <<>>
    /\ e.type = Head(issue.element_id)

VPFixSafeZone(e, issue) ==
    IF VPTargets(e, issue)
    THEN IF issue.code = "SAFE_ZONE_TOP_VIOLATION"
         THEN [e EXCEPT !.y = 12]
         ELSE [e EXCEPT !.y = 70]
    ELSE e

VPContrastColor(isLightBg) == IF isLightBg THEN Black ELSE White

VPFixContrast(e, isLightBg) ==
    IF IsText(e) THEN [e EXCEPT !.color = VPContrastColor(isLightBg)] ELSE e

VPMappedCodes ==
    {"TESCO_TAG_INVALID", "FONT_SIZE_TOO_SMALL",
     "SAFE_ZONE_TOP_VIOLATION", "SAFE_ZONE_BOTTOM_VIOLATION",
     "DRINKAWARE_MISSING", "DRINKAWARE_COLOR_INVALID", "WCAG_CONTRAST_FAIL"}

\* The switch of ValidatorPanel.applyAutoFix.
VPElements(elements, issue) ==
    CASE issue.code = "TESCO_TAG_INVALID" -> MapElements(elements, FixTescoText)
      [] issue.code = "FONT_SIZE_TOO_SMALL" -> MapElements(elements, VPFixFont)
      [] issue.code \in {"SAFE_ZONE_TOP_VIOLATION", "SAFE_ZONE_BOTTOM_VIOLATION"} ->
            LET f(e) == VPFixSafeZone(e, issue)
            IN  MapElements(elements, f)
      [] issue.code = "DRINKAWARE_MISSING" -> Append(elements, DrinkawareElement(92))
      [] issue.code = "DRINKAWARE_COLOR_INVALID" -> MapElements(elements, FixDrinkawareColor)
      [] issue.code = "WCAG_CONTRAST_FAIL" ->
            LET isLightBg == isLightColor(BgColorOf(elements))
                f(e) == VPFixContrast(e, isLightBg)
            IN  MapElements(elements, f)
      [] OTHER -> elements

Panels == {"DA", "VP"}

MappedCodes(panel) == IF panel = "DA" THEN DAMappedCodes ELSE VPMappedCodes

\* newLayout as the switch leaves it: { ...selectedLayout, elements }
FixLayout(panel, l, issue) ==
    [l EXCEPT !.elements = IF panel = "DA" THEN DAElements(l.elements, issue)
                           ELSE VPElements(l.elements, issue)]

-----------------------------------------------------------------------------
(* Store operations *)

\* a history that, once full, drops the entry just pushed instead of the
\* oldest one
SetLayoutHistory_DropsNewest(l) ==
    LET pushed == Append(SubSeq(history, 1, historyIndex + 1), JsonClone(l))
    IN  IF Len(pushed) > MAX_HISTORY THEN SubSeq(pushed, 1, MAX_HISTORY) ELSE pushed

\* What set({ layout, history, historyIndex }) of setLayout writes for a
\* non-null layout l.
SetLayoutHistory(l) ==
    LET pushed == Append(SubSeq(history, 1, historyIndex + 1), JsonClone(l))
    IN  IF Len(pushed) > MAX_HISTORY THEN Tail(pushed) ELSE pushed

\* App's auto-validate effect: a change of layout clears the pending timeout
\* and, for a non-null layout, arms a new one that captures the render's
\* layout and selectedChannel.
NoTimer == [pending |-> FALSE, layout |-> NullLayout, channel |-> ""]

ArmTimer(l) ==
    IF l = NullLayout THEN NoTimer
    ELSE [pending |-> TRUE, layout |-> l, channel |-> selectedChannel]

\* a setLayout that pushes after the newest entry without cutting the redo
\* branch off
setLayout_KeepsRedoBranch(l) ==
    /\ layout' = l
    /\ IF l # NullLayout
       THEN /\ history' = Append(history, JsonClone(l))
            /\ historyIndex' = historyIndex + 1
       ELSE UNCHANGED <<history, historyIndex>>
    /\ timer' = ArmTimer(l)

\* store.setLayout(l), followed by the re-render that runs App's effect
setLayout(l) ==
    /\ layout' = l
    /\ IF l # NullLayout
       THEN /\ history' = SetLayoutHistory(l)
            /\ historyIndex' = Len(SetLayoutHistory(l)) - 1
       ELSE UNCHANGED <<history, historyIndex>>
    /\ timer' = ArmTimer(l)

canUndo == historyIndex > 0

canRedo == historyIndex < Len(history) - 1

\* an undo that saves the layout it leaves into the history entry it leaves
undo_RewritesEntry ==
    /\ canUndo
    /\ historyIndex' = historyIndex - 1
    /\ layout' = JsonClone(history[historyIndex])
    /\ timer' = ArmTimer(JsonClone(history[historyIndex]))
    /\ history' = [history EXCEPT ![historyIndex + 1] = layout]
    /\ UNCHANGED <<validationResult, isLoading, canvasSize, isAlcohol,
                   selectedChannel, inflight, showExportDialog, exportChannels,
                   isExporting, exportStart, console, calls, edits, fx,
                   selectedIndex, snap, thrown, suggestions>>

\* Toolbar undo button (disabled unless canUndo())
undo ==
    /\ canUndo
    /\ historyIndex' = historyIndex - 1
    /\ layout' = JsonClone(history[historyIndex])
    /\ timer' = ArmTimer(JsonClone(history[historyIndex]))
    /\ UNCHANGED <<history, validationResult, isLoading, canvasSize, isAlcohol,
                   selectedChannel, inflight, showExportDialog, exportChannels,
                   isExporting, exportStart, console, calls, edits, fx,
                   selectedIndex, snap, thrown, suggestions>>

\* a redo that moves historyIndex forward and restores the entry it leaves
redo_KeepsEntry ==
    /\ canRedo
    /\ historyIndex' = historyIndex + 1
    /\ layout' = JsonClone(history[historyIndex + 1])
    /\ timer' = ArmTimer(JsonClone(history[historyIndex + 1]))
    /\ UNCHANGED <<history, validationResult, isLoading, canvasSize, isAlcohol,
                   selectedChannel, inflight, showExportDialog, exportChannels,
                   isExporting, exportStart, console, calls, edits, fx,
                   selectedIndex, snap, thrown, suggestions>>

\* Toolbar redo button (disabled unless canRedo())
redo ==
    /\ canRedo
    /\ historyIndex' = historyIndex + 1
    /\ layout' = JsonClone(history[historyIndex + 2])
    /\ timer' = ArmTimer(JsonClone(history[historyIndex + 2]))
    /\ UNCHANGED <<history, validationResult, isLoading, canvasSize, isAlcohol,
                   selectedChannel, inflight, showExportDialog, exportChannels,
                   isExporting, exportStart, console, calls, edits, fx,
                   selectedIndex, snap, thrown, suggestions>>

-----------------------------------------------------------------------------
(* Validation requests *)

channelMap(c) ==
    CASE c = "facebook_feed" -> "facebook"
      [] c = "instagram_feed" -> "instagram"
      [] c = "instagram_story" -> "stories"
      [] c = "instore_a4" -> "in_store"
      [] c \in {"facebook", "instagram", "stories", "in_store"} -> c
      [] OTHER -> "stories"

\* fullRequest of validateLayout; an argument the caller leaves out is ""
\* (canvas_size, channel) or has hasAlcohol = FALSE.
validateLayout(l, canvas_size, hasAlcohol, is_alcohol, channel, src) ==
    [layout |-> l,
     canvas_size |-> IF canvas_size = "" THEN "1080x1920" ELSE canvas_size,
     is_alcohol |-> IF hasAlcohol THEN is_alcohol ELSE FALSE,
     channel |-> channelMap(IF channel = "" THEN "stories" ELSE channel),
     src |-> src]

\* the request of runValidation and of the re-validation in applyAutoFix,
\* with the canvasSize and isAlcohol the handler's closure holds
PanelRequest(l, cs, ia, src) ==
    validateLayout(l, cs, TRUE, ia,
                   IF cs = "1080x1920" THEN "stories" ELSE "facebook", src)

\* the request of App.handleValidate
AppRequest(l, channel) == validateLayout(l, "", FALSE, FALSE, channel, "app")

InflightCount == BagCardinality(inflight)

Send(r) == inflight (+) SetToBag({r})

Receive(r) == inflight (-) SetToBag({r})

-----------------------------------------------------------------------------
(* The Fix All loop *)

NoBatch ==
    [pc |-> "idle", panel |-> "DA", base |-> NullLayout, issues |-> <<>>,
     idx |-> 1, canvasSize |-> "", isAlcohol |-> FALSE, clean |-> TRUE]

BatchLive == batch.pc \in {"running", "waiting"}

\* a layout change made outside the loop while a batch is recorded
Disturb == IF batch.pc = "idle" THEN batch ELSE [batch EXCEPT !.clean = FALSE]

\* the awaited applyAutoFix of the loop has settled: go on to the next issue
BatchResume == [batch EXCEPT !.pc = "running", !.idx = @ + 1]

-----------------------------------------------------------------------------
(* Bursts of layout changes: a burst is open from the first change of layout *)
(* until App's 500 ms timeout fires, that is until 500 ms have passed        *)
(* without another change.  sent lists the layouts of the validation         *)
(* requests the changes of the burst have caused, last is the layout in the  *)
(* store when the burst ended.                                               *)

NoBurst == [open |-> TRUE, sent |-> <<>>, last |-> NullLayout]

\* a change of layout whose handler sends the requests for the layouts `sent`
BurstEdit(sent) ==
    IF burst.open THEN [burst EXCEPT !.sent = @ \o sent]
    ELSE [open |-> TRUE, sent |-> sent, last |-> NullLayout]

\* the timeout fires and handleValidate sends the request for layout l
BurstClose(l) ==
    [open |-> FALSE,
     sent |-> Append(IF burst.open THEN burst.sent ELSE <<>>, l),
     last |-> layout]

-----------------------------------------------------------------------------
(* App: validation *)

\* App.handleValidate started by the auto-validate timeout, 500 ms after the
\* last change of layout, with the layout and channel of that render
TimerFire ==
    /\ timer.pending
    /\ InflightCount < MaxAppInflight
    /\ timer' = NoTimer
    /\ isLoading' = TRUE
    /\ inflight' = Send(AppRequest(timer.layout, timer.channel))
    /\ burst' = BurstClose(timer.layout)
    /\ UNCHANGED <<layout, history, historyIndex, validationResult, canvasSize,
                   isAlcohol, selectedChannel, showExportDialog, exportChannels,
                   isExporting, exportStart, batch, console, calls, edits, fx,
                   selectedIndex, snap, op, thrown, suggestions>>

\* App.handleValidate started by the Toolbar's Validate button
ValidateClick ==
    /\ ~isLoading
    /\ layout # NullLayout
    /\ InflightCount < MaxAppInflight
    /\ isLoading' = TRUE
    /\ inflight' = Send(AppRequest(layout, selectedChannel))
    /\ UNCHANGED <<layout, history, historyIndex, validationResult, canvasSize,
                   isAlcohol, selectedChannel, timer, showExportDialog,
                   exportChannels, isExporting, exportStart, batch, console,
                   calls, edits, fx, auxVars>>

\* generateLayout() of the Design Wizard for the preset 'hero-centered', with
\* no asset uploaded and the default headline and colours
WizardLayout ==
    [id |-> "wizard",
     elements |-> <<El("background", "", U, U, U, U, "", U, White),
                    El("packshot", "", 20, 20, 60, 45, "", U, NoColor),
                    El("headline", "", 10, 70, 80, 10, "Your Headline Here", 48, Black),
                    El("tesco_tag", "", 5, 85, 25, 5, "Available at Tesco", U, NoColor)>>]

\* The Design Wizard completes: DesignWizard.handleComplete calls setLayout,
\* App's onComplete calls setLayout again and then the handleValidate of the
\* render that showed the wizard, whose layout is the one of that render
WizardComplete(wizardLayout) ==
    /\ edits < MaxEdits
    /\ InflightCount < MaxAppInflight
    /\ LET first == SetLayoutHistory(wizardLayout)
           pushed == Append(first, JsonClone(wizardLayout))
       IN  history' = IF Len(pushed) > MAX_HISTORY THEN Tail(pushed) ELSE pushed
    /\ historyIndex' = Len(history') - 1
    /\ layout' = wizardLayout
    /\ timer' = ArmTimer(wizardLayout)
    /\ IF layout = NullLayout
       THEN UNCHANGED <<isLoading, inflight>>
       ELSE /\ isLoading' = TRUE
            /\ inflight' = Send(AppRequest(layout, selectedChannel))
    /\ burst' = BurstEdit(IF layout = NullLayout THEN <<>> ELSE <<layout>>)
    /\ edits' = edits + 1
    /\ batch' = Disturb
    /\ UNCHANGED <<validationResult, canvasSize, isAlcohol, selectedChannel,
                   showExportDialog, exportChannels, isExporting, exportStart,
                   console, calls, fx, selectedIndex, snap, op, thrown,
                   suggestions>>

\* issue lists the validation service answers with
iTop == Issue("hard", "SAFE_ZONE_TOP_VIOLATION", <<"headline", "0">>, TRUE)

iDrinkaware == Issue("hard", "DRINKAWARE_MISSING", <<>>, TRUE)

iMaxElements == Issue("warn", "MAX_ELEMENTS", <<>>, TRUE)

ResponsePool == {<<>>, <<iMaxElements>>, <<iDrinkaware, iTop, iMaxElements>>}

\* a response arrives: setValidationResult(result) in the handler that sent r
Respond(r, issues) ==
    /\ validationResult' = Result(issues, r.layout)
    /\ inflight' = Receive(r)
    /\ isLoading' = IF r.src = "app" THEN FALSE ELSE isLoading
    /\ batch' = IF r.src = "batch" THEN BatchResume ELSE batch
    /\ UNCHANGED <<layout, history, historyIndex, canvasSize, isAlcohol,
                   selectedChannel, timer, showExportDialog, exportChannels,
                   isExporting, exportStart, console, calls, edits, fx, auxVars>>

\* handleError(error): every branch throws a new Error, so validateLayout
\* rejects; the catch of the handler that awaited it logs the error
ValidateLayoutThrows == {"validateLayout"}

\* the request fails: validateLayout throws and the handler's catch runs
Fail(r) ==
    /\ inflight' = Receive(r)
    /\ isLoading' = IF r.src = "app" THEN FALSE ELSE isLoading
    /\ batch' = IF r.src = "batch" THEN BatchResume ELSE batch
    /\ thrown' = thrown \cup ValidateLayoutThrows
    /\ UNCHANGED <<layout, history, historyIndex, validationResult, canvasSize,
                   isAlcohol, selectedChannel, timer, showExportDialog,
                   exportChannels, isExporting, exportStart, console, calls,
                   edits, fx, selectedIndex, snap, op, burst, suggestions>>

-----------------------------------------------------------------------------
(* CreativeCanvas *)

\* { ...el, ...updates }
Merge(e, updates) ==
    [f \in DOMAIN e |-> IF f \in DOMAIN updates THEN updates[f] ELSE e[f]]

EditIndexes == {2}

EditUpdates == {[y |-> 5]}

\* CreativeCanvas.updateElement(index, updates): setLayout, then runValidation
CanvasUpdateElement(index, updates) ==
    /\ layout # NullLayout
    /\ index \in 1..Len(layout.elements)
    /\ edits < MaxEdits
    /\ InflightCount < MaxInflight
    /\ LET newLayout ==
            [layout EXCEPT !.elements[index] = Merge(layout.elements[index], updates)]
       IN  /\ setLayout(newLayout)
           /\ inflight' = Send(PanelRequest(newLayout, canvasSize, isAlcohol, "canvas"))
    /\ edits' = edits + 1
    /\ batch' = Disturb
    /\ burst' = BurstEdit(<<[layout EXCEPT !.elements[index] =
                                Merge(layout.elements[index], updates)]>>)
    /\ UNCHANGED <<validationResult, isLoading, canvasSize, isAlcohol,
                   selectedChannel, showExportDialog, exportChannels,
                   isExporting, exportStart, console, calls, fx,
                   selectedIndex, snap, op, thrown, suggestions>>

-----------------------------------------------------------------------------
(* Export *)

ExportChannelIds == {"facebook_feed"}

\* the stored result was computed for the layout that is in the store
IsValidated == ~validationResult.isNull /\ validationResult.forLayout = layout

NoExport == [hard |-> FALSE, validated |-> TRUE]

\* Toolbar: the Export button is not disabled
ToolbarExportEnabled == ~(isLoading \/ hasErrors)

\* App.handleKeyDown: Ctrl/Cmd+E opens the dialog
ShortcutExportEnabled == ~isLoading

\* ExportDialog: the dialog is open and its Export button is not disabled
DialogExportEnabled ==
    /\ showExportDialog
    /\ ~(isExporting \/ exportChannels = {} \/ layout = NullLayout)

ToolbarExportClick ==
    /\ ToolbarExportEnabled
    /\ ~showExportDialog
    /\ showExportDialog' = TRUE
    /\ UNCHANGED <<storeVars, inflight, timer, exportChannels, isExporting,
                   exportStart, batch, console, calls, edits, fx, auxVars>>

ShortcutExport ==
    /\ ShortcutExportEnabled
    /\ ~showExportDialog
    /\ showExportDialog' = TRUE
    /\ UNCHANGED <<storeVars, inflight, timer, exportChannels, isExporting,
                   exportStart, batch, console, calls, edits, fx, auxVars>>

toggleChannel(channelId) ==
    /\ showExportDialog
    /\ exportChannels' = IF channelId \in exportChannels
                         THEN exportChannels \ {channelId}
                         ELSE exportChannels \cup {channelId}
    /\ UNCHANGED <<storeVars, inflight, timer, showExportDialog, isExporting,
                   exportStart, batch, console, calls, edits, fx, auxVars>>

\* ExportDialog.handleExport up to its await
handleExport ==
    /\ DialogExportEnabled
    /\ isExporting' = TRUE
    /\ isLoading' = TRUE
    /\ exportStart' = [hard |-> hasErrors, validated |-> IsValidated]
    /\ UNCHANGED <<layout, history, historyIndex, validationResult, canvasSize,
                   isAlcohol, selectedChannel, inflight, timer, showExportDialog,
                   exportChannels, batch, console, calls, edits, fx, auxVars>>

\* exportBatch settles (result or error): the finally block of handleExport
ExportSettled ==
    /\ isExporting
    /\ isExporting' = FALSE
    /\ isLoading' = FALSE
    /\ exportStart' = NoExport
    /\ UNCHANGED <<layout, history, historyIndex, validationResult, canvasSize,
                   isAlcohol, selectedChannel, inflight, timer, showExportDialog,
                   exportChannels, batch, console, calls, edits, fx, auxVars>>

\* ExportDialog.handleClose -> App's onClose
handleClose ==
    /\ showExportDialog
    /\ showExportDialog' = FALSE
    /\ UNCHANGED <<storeVars, inflight, timer, exportChannels, isExporting,
                   exportStart, batch, console, calls, edits, fx, auxVars>>

-----------------------------------------------------------------------------
(* applyAutoFix and Fix All (DesignAssistant and ValidatorPanel) *)

\* the value the promise of applyAutoFix resolves with: the function has no
\* return value on any path
ApplyAutoFixReturn(panel, l, issue) == "undefined"

Call(panel, l, issue) ==
    [ret |-> ApplyAutoFixReturn(panel, l, issue),
     outcome |-> IF l # NullLayout /\ issue.code \in MappedCodes(panel)
                 THEN "applied" ELSE "unresolved"]

\* applyAutoFix whose default case falls through to updateLayout(newLayout)
\* and the re-validation instead of returning
applyAutoFix_DefaultFallsThrough(panel, l, cs, ia, issue, src) ==
    /\ calls' = calls \cup {Call(panel, l, issue)}
    /\ IF l = NullLayout
       THEN UNCHANGED <<layout, history, historyIndex, timer, inflight, console>>
       ELSE /\ InflightCount < MaxInflight
            /\ setLayout(FixLayout(panel, l, issue))
            /\ inflight' = Send(PanelRequest(FixLayout(panel, l, issue), cs, ia, src))
            /\ console' = IF issue.code \notin MappedCodes(panel)
                          THEN console \cup {issue.code} ELSE console

\* applyAutoFix(issue) up to its first await, run by a closure that holds
\* selectedLayout = l, canvasSize = cs, isAlcohol = ia; src tags the request
applyAutoFix(panel, l, cs, ia, issue, src) ==
    /\ calls' = calls \cup {Call(panel, l, issue)}
    /\ IF l = NullLayout
       THEN UNCHANGED <<layout, history, historyIndex, timer, inflight, console>>
       ELSE IF issue.code \notin MappedCodes(panel)
       THEN /\ console' = console \cup {issue.code}
            /\ UNCHANGED <<layout, history, historyIndex, timer, inflight>>
       ELSE /\ InflightCount < MaxInflight
            /\ setLayout(FixLayout(panel, l, issue))
            /\ inflight' = Send(PanelRequest(FixLayout(panel, l, issue), cs, ia, src))
            /\ UNCHANGED console

\* the issues that show a Quick Fix / Auto-fix button
Fixable(r) == {r.issues[i] : i \in {j \in 1..Len(r.issues) : r.issues[j].fix_suggestion}}

\* a click on the fix button of one issue card
ApplyAutoFixClick(panel, issue) ==
    /\ issue \in Fixable(validationResult)
    /\ edits < MaxFixes
    /\ applyAutoFix(panel, layout, canvasSize, isAlcohol, issue, "fix")
    /\ edits' = edits + 1
    /\ batch' = IF layout' # layout THEN Disturb ELSE batch
    /\ UNCHANGED <<validationResult, isLoading, canvasSize, isAlcohol,
                   selectedChannel, showExportDialog, exportChannels,
                   isExporting, exportStart, fx, auxVars>>

\* the Fix All button is rendered
FixAllShown(panel) ==
    /\ ~validationResult.isNull
    /\ IF panel = "DA" THEN Len(validationResult.issues) > 0
       ELSE Fixable(validationResult) # {}

\* handleFixAll / fixAll is entered: the loop runs over the issues and with
\* the applyAutoFix closure of the render in which the button was clicked
FixAllStart(panel) ==
    /\ FixAllShown(panel)
    /\ ~BatchLive
    /\ edits < MaxFixes
    /\ batch' = [pc |-> "running", panel |-> panel, base |-> layout,
                 issues |-> validationResult.issues, idx |-> 1,
                 canvasSize |-> canvasSize, isAlcohol |-> isAlcohol,
                 clean |-> TRUE]
    /\ edits' = edits + 1
    /\ UNCHANGED <<storeVars, inflight, timer, showExportDialog, exportChannels,
                   isExporting, exportStart, console, calls, fx, auxVars>>

\* the loop skips the issue without calling applyAutoFix
BatchSkips(issue) == batch.panel = "VP" /\ ~issue.fix_suggestion

\* one iteration of the for loop, up to the await inside applyAutoFix
FixAllStep ==
    /\ batch.pc = "running"
    /\ IF batch.idx > Len(batch.issues)
       THEN /\ batch' = [batch EXCEPT !.pc = "done"]
            /\ UNCHANGED <<layout, history, historyIndex, timer, inflight,
                           console, calls>>
       ELSE LET issue == batch.issues[batch.idx]
            IN  IF BatchSkips(issue)
                THEN /\ batch' = [batch EXCEPT !.idx = @ + 1]
                     /\ UNCHANGED <<layout, history, historyIndex, timer,
                                    inflight, console, calls>>
                ELSE /\ applyAutoFix(batch.panel, batch.base, batch.canvasSize,
                                     batch.isAlcohol, issue, "batch")
                     /\ batch' = IF inflight' # inflight
                                 THEN [batch EXCEPT !.pc = "waiting"]
                                 ELSE [batch EXCEPT !.idx = @ + 1]
    /\ UNCHANGED <<validationResult, isLoading, canvasSize, isAlcohol,
                   selectedChannel, showExportDialog, exportChannels,
                   isExporting, exportStart, edits, fx, auxVars>>

-----------------------------------------------------------------------------
(* The application *)

NoFx == [stage |-> "off"]

NoSnap == [stage |-> "off"]

NoOp == [name |-> "none", before |-> <<>>, prev |-> "none", prevBefore |-> <<>>]

Init ==
    /\ layout = DefaultLayout
    /\ history = <<DefaultLayout>>
    /\ historyIndex = 0
    /\ validationResult = NullResult
    /\ isLoading = FALSE
    /\ canvasSize = "1080x1920"
    /\ isAlcohol = FALSE
    /\ selectedChannel = "facebook_feed"
    /\ inflight = EmptyBag
    /\ timer = [pending |-> TRUE, layout |-> DefaultLayout, channel |-> "facebook_feed"]
    /\ showExportDialog = FALSE
    /\ exportChannels = {"facebook_feed"}
    /\ isExporting = FALSE
    /\ exportStart = NoExport
    /\ batch = NoBatch
    /\ console = {}
    /\ calls = {}
    /\ edits = 0
    /\ fx = NoFx
    /\ selectedIndex = U
    /\ snap = NoSnap
    /\ op = NoOp
    /\ burst = NoBurst
    /\ thrown = {}
    /\ suggestions = <<>>

Undo == undo /\ batch' = Disturb /\ burst' = BurstEdit(<<>>) /\ UNCHANGED op

Redo == redo /\ batch' = Disturb /\ burst' = BurstEdit(<<>>) /\ UNCHANGED op

ValidationNext ==
    \/ TimerFire
    \/ ValidateClick
    \/ \E r \in BagToSet(inflight) : \E issues \in ResponsePool : Respond(r, issues)
    \/ \E r \in BagToSet(inflight) : Fail(r)

EditNext ==
    \/ \E index \in EditIndexes : \E updates \in EditUpdates :
            CanvasUpdateElement(index, updates)
    \/ Undo
    \/ Redo

ExportNext ==
    \/ ToolbarExportClick
    \/ ShortcutExport
    \/ \E channelId \in ExportChannelIds : toggleChannel(channelId)
    \/ handleExport
    \/ ExportSettled
    \/ handleClose

FixNext ==
    \/ \E panel \in Panels : \E issue \in Fixable(validationResult) :
            ApplyAutoFixClick(panel, issue)
    \/ \E panel \in Panels : FixAllStart(panel)
    \/ FixAllStep

Next == ValidationNext \/ EditNext \/ ExportNext \/ FixNext

Spec == Init /\ [][Next]_vars

\* the editor with validation and export (no auto-fix panel in use)
NextEditor == ValidationNext \/ EditNext \/ ExportNext

SpecEditor == Init /\ [][NextEditor]_vars

\* the auto-fix panels with the debounced validation (no direct manipulation
\* on the canvas, export dialog closed)
NextFix ==
    \/ TimerFire
    \/ \E r \in BagToSet(inflight) : \E issues \in ResponsePool : Respond(r, issues)
    \/ \E r \in BagToSet(inflight) : Fail(r)
    \/ FixNext

SpecFix == Init /\ [][NextFix]_vars

\* the editor with the Design Wizard, the Validate button, the debounced
\* validation and undo/redo
NextWizard ==
    \/ WizardComplete(WizardLayout)
    \/ TimerFire
    \/ ValidateClick
    \/ \E r \in BagToSet(inflight) : \E issues \in ResponsePool : Respond(r, issues)
    \/ \E r \in BagToSet(inflight) : Fail(r)
    \/ Undo
    \/ Redo

SpecWizard == Init /\ [][NextWizard]_vars

-----------------------------------------------------------------------------
(* The resolvers applied to arbitrary layouts and issues: fx holds a layout *)
(* and an issue, the layout after one applyAutoFix (out) and after a second *)
(* applyAutoFix with the same issue (again).                                *)

FxTypes == {"headline", "packshot", "tesco_tag", "drinkaware"}

FxYs == {U, 5, 11, 12, 30, 75, 90}

FxHeights == {U, 8, 17, 18, 30}

FxColorOf(type) == IF type = "drinkaware" THEN White ELSE Gray500

FxElements ==
    {El(t, "", 10, y, 80, h, "", 16, FxColorOf(t)) :
        t \in FxTypes, y \in FxYs, h \in FxHeights}

FxBackground == El("background", "", U, U, U, U, "", U, White)

\* a second element next to the one under test: same kind or another kind
FxOthers ==
    {El("headline", "", 10, 40, 80, 10, "", 48, Gray800),
     El("subhead", "", 10, 3, 80, 8, "", 24, Gray500)}

FxGeomLayouts ==
    {[id |-> "fx", elements |-> <<FxBackground, e>>] : e \in FxElements}
    \cup
    {[id |-> "fx", elements |-> <<FxBackground, e, o>>] :
        e \in FxElements, o \in FxOthers}

FxElementIds == {<<>>, <<"headline", "0">>, <<"packshot", "1">>, <<"drinkaware">>}

FxGeomIssues ==
    {Issue("hard", code, id, TRUE) :
        code \in {"SAFE_ZONE_TOP_VIOLATION", "SAFE_ZONE_BOTTOM_VIOLATION",
                  "DRINKAWARE_MISSING", "DRINKAWARE_COLOR_INVALID"},
        id \in FxElementIds}

FxHexDigits == {0, 7, 8, 15}

FxBgColors ==
    {<<a, b, c, d, e, f>> : a \in FxHexDigits, b \in FxHexDigits,
        c \in FxHexDigits, d \in FxHexDigits, e \in FxHexDigits,
        f \in FxHexDigits}
    \cup {NoColor}

FxColorLayouts ==
    {[id |-> "fx",
      elements |-> <<[FxBackground EXCEPT !.color = c],
                     El("headline", "", 10, 30, 80, 15, "", 48, Gray500),
                     El("packshot", "p.png", 30, 50, 40, 40, "", U, NoColor),
                     El("subhead", "", 10, 48, 80, 8, "", 24, White)>>] :
        c \in FxBgColors}

FxColorIssue == Issue("hard", "WCAG_CONTRAST_FAIL", <<>>, TRUE)

FxStart(panel, l, issue) ==
    [stage |-> "in", panel |-> panel, layout |-> l, issue |-> issue,
     out |-> l, again |-> l]

FxInit ==
    /\ layout = DefaultLayout
    /\ history = <<DefaultLayout>>
    /\ historyIndex = 0
    /\ validationResult = NullResult
    /\ isLoading = FALSE
    /\ canvasSize = "1080x1920"
    /\ isAlcohol = FALSE
    /\ selectedChannel = "facebook_feed"
    /\ inflight = EmptyBag
    /\ timer = NoTimer
    /\ showExportDialog = FALSE
    /\ exportChannels = {"facebook_feed"}
    /\ isExporting = FALSE
    /\ exportStart = NoExport
    /\ batch = NoBatch
    /\ console = {}
    /\ calls = {}
    /\ edits = 0
    /\ selectedIndex = U
    /\ snap = NoSnap
    /\ op = NoOp
    /\ burst = NoBurst
    /\ thrown = {}
    /\ suggestions = <<>>
    /\ \/ \E panel \in Panels : \E l \in FxGeomLayouts : \E issue \in FxGeomIssues :
            fx = FxStart(panel, l, issue)
       \/ \E panel \in Panels : \E l \in FxColorLayouts :
            fx = FxStart(panel, l, FxColorIssue)

\* applyAutoFix(issue) on the layout: newLayout of the switch
FxApply ==
    /\ fx.stage = "in"
    /\ fx' = [fx EXCEPT !.stage = "fixed",
                        !.out = FixLayout(fx.panel, fx.layout, fx.issue),
                        !.again = FixLayout(fx.panel, fx.layout, fx.issue)]
    /\ UNCHANGED <<storeVars, inflight, timer, showExportDialog, exportChannels,
                   isExporting, exportStart, batch, console, calls, edits,
                   auxVars>>

\* applyAutoFix(issue) once more, on the layout the first call produced
FxApplyAgain ==
    /\ fx.stage = "fixed"
    /\ fx' = [fx EXCEPT !.stage = "refixed",
                        !.again = FixLayout(fx.panel, fx.out, fx.issue)]
    /\ UNCHANGED <<storeVars, inflight, timer, showExportDialog, exportChannels,
                   isExporting, exportStart, batch, console, calls, edits,
                   auxVars>>

FxNext == FxApply \/ FxApplyAgain

SpecResolver == FxInit /\ [][FxNext]_vars


-----------------------------------------------------------------------------
(* The store's layout operations and CreativeCanvas's selection and delete, *)
(* called in any order.  op records the last operation, the operation       *)
(* before it and the store as each of them found it.                        *)

StoreSnapshot ==
    [layout |-> layout, history |-> history, historyIndex |-> historyIndex,
     selectedIndex |-> selectedIndex]

Did(name) ==
    [name |-> name, before |-> StoreSnapshot, prev |-> op.name,
     prevBefore |-> op.before]

\* what a store or canvas operation leaves alone
StoreFrame ==
    UNCHANGED <<validationResult, isLoading, canvasSize, isAlcohol,
                selectedChannel, inflight, showExportDialog, exportChannels,
                isExporting, exportStart, batch, console, calls, fx, snap,
                burst, thrown>>

\* the layout of the Blank Canvas button
BlankLayout == [id |-> "blank", elements |-> <<El("background", "", U, U, U, U, "", U, White)>>]

\* a generated layout; the generator fixes no order of the elements
SuggestedLayout ==
    [id |-> "s1",
     elements |-> <<El("packshot", "p.png", 30, 40, 40, 40, "", U, NoColor),
                    El("background", "", U, U, U, U, "", U, Gray500)>>]

GeneratedSuggestions == <<[id |-> "s1", layout |-> SuggestedLayout]>>

\* the element AssetLibrary adds for a packshot asset
AssetElement == El("packshot", "p.png", 25, 25, 40, 40, "", U, NoColor)

StoreLayouts == {NullLayout, BlankLayout}

StoreIds == {"p.png", "s1"}

\* store.setLayout(l) called directly
StoreSetLayout(l) ==
    /\ edits < MaxEdits
    /\ setLayout(l)
    /\ op' = Did(IF l = NullLayout THEN "setLayoutNull" ELSE "setLayout")
    /\ edits' = edits + 1
    /\ UNCHANGED <<selectedIndex, suggestions>>
    /\ StoreFrame

\* el.asset === id || (el as any).id === id (an element carries no id field)
MatchesId(e, id) == e.asset = id

\* an operation that returns before setLayout
Ignored(name) ==
    /\ op' = Did(name)
    /\ UNCHANGED <<layout, history, historyIndex, timer, edits, selectedIndex,
                   suggestions>>

\* an updateElement that merges the updates into every element
updateElement_MergesAll(id, updates) ==
    /\ edits < MaxEdits
    /\ IF layout = NullLayout THEN Ignored("ignored")
       ELSE LET f(e) == Merge(e, updates)
            IN  /\ setLayout([layout EXCEPT !.elements = MapElements(layout.elements, f)])
                /\ op' = Did("updateElement")
                /\ edits' = edits + 1
                /\ UNCHANGED <<selectedIndex, suggestions>>
    /\ StoreFrame

\* store.updateElement(id, updates)
updateElement(id, updates) ==
    /\ edits < MaxEdits
    /\ IF layout = NullLayout THEN Ignored("ignored")
       ELSE LET f(e) == IF MatchesId(e, id) THEN Merge(e, updates) ELSE e
            IN  /\ setLayout([layout EXCEPT !.elements = MapElements(layout.elements, f)])
                /\ op' = Did("updateElement")
                /\ edits' = edits + 1
                /\ UNCHANGED <<selectedIndex, suggestions>>
    /\ StoreFrame

\* store.addElement(element)
addElement(element) ==
    /\ edits < MaxEdits
    /\ IF layout = NullLayout THEN Ignored("ignored")
       ELSE /\ setLayout([layout EXCEPT !.elements = Append(layout.elements, element)])
            /\ op' = Did("addElement")
            /\ edits' = edits + 1
            /\ UNCHANGED <<selectedIndex, suggestions>>
    /\ StoreFrame

\* elements.filter(keep)
FilterElements(elements, keep(_)) == SelectSeq(elements, keep)

\* store.removeElement(id)
removeElement(id) ==
    /\ edits < MaxEdits
    /\ IF layout = NullLayout THEN Ignored("ignored")
       ELSE LET keep(e) == ~MatchesId(e, id)
            IN  /\ setLayout([layout EXCEPT !.elements = FilterElements(layout.elements, keep)])
                /\ op' = Did("removeElement")
                /\ edits' = edits + 1
                /\ UNCHANGED <<selectedIndex, suggestions>>
    /\ StoreFrame

\* store.setSuggestions(list)
setSuggestions(list) ==
    /\ suggestions # list
    /\ suggestions' = list
    /\ op' = Did("setSuggestions")
    /\ UNCHANGED <<layout, history, historyIndex, timer, edits, selectedIndex>>
    /\ StoreFrame

\* suggestions.find((s) => s.id === id): its index, 0 when there is none
FindSuggestion(id) ==
    LET idx == {i \in 1..Len(suggestions) : suggestions[i].id = id}
    IN  IF idx = {} THEN 0 ELSE CHOOSE i \in idx : \A j \in idx : i <= j

\* store.selectSuggestion(id)
selectSuggestion(id) ==
    /\ edits < MaxEdits
    /\ IF FindSuggestion(id) = 0 THEN Ignored("ignored")
       ELSE /\ setLayout(suggestions[FindSuggestion(id)].layout)
            /\ op' = Did("selectSuggestion")
            /\ edits' = edits + 1
            /\ UNCHANGED <<selectedIndex, suggestions>>
    /\ StoreFrame

StoreUndo ==
    /\ Len(history) - 1 - historyIndex < MaxUndos
    /\ undo
    /\ op' = Did("undo")
    /\ UNCHANGED <<batch, burst>>

StoreRedo == redo /\ op' = Did("redo") /\ UNCHANGED <<batch, burst>>

\* the element kinds CreativeCanvas renders with a click handler
Selectable(e) == e.type \in {"packshot", "logo", "headline", "subhead"}

\* onSelect / onClick of a rendered element: setSelectedIndex(elementIndex)
SelectElement(index) ==
    /\ layout # NullLayout
    /\ index + 1 \in 1..Len(layout.elements)
    /\ Selectable(layout.elements[index + 1])
    /\ selectedIndex # index
    /\ selectedIndex' = index
    /\ op' = Did("select")
    /\ UNCHANGED <<layout, history, historyIndex, timer, edits, suggestions>>
    /\ StoreFrame

\* layout.elements.filter((_, i) => i !== selectedIndex)
WithoutIndex(elements, index) ==
    [i \in 1..(Len(elements) - 1) |->
        IF i < index + 1 THEN elements[i] ELSE elements[i + 1]]

\* deleteElement that has lost its test for the background
deleteElement_NoBackgroundGuard ==
    /\ op' = Did("deleteElement")
    /\ IF \/ selectedIndex = U
          \/ layout = NullLayout
          \/ selectedIndex + 1 > Len(layout.elements)
       THEN UNCHANGED <<layout, history, historyIndex, timer, selectedIndex>>
       ELSE /\ setLayout([layout EXCEPT !.elements = WithoutIndex(layout.elements, selectedIndex)])
            /\ selectedIndex' = U
    /\ UNCHANGED <<edits, suggestions>>
    /\ StoreFrame

\* CreativeCanvas.deleteElement; with selectedIndex past the end of the
\* elements, element.type throws a TypeError and the handler ends there
deleteElement ==
    /\ op' = Did("deleteElement")
    /\ IF \/ selectedIndex = U
          \/ layout = NullLayout
          \/ selectedIndex + 1 > Len(layout.elements)
          \/ layout.elements[selectedIndex + 1].type = "background"
       THEN UNCHANGED <<layout, history, historyIndex, timer, selectedIndex>>
       ELSE /\ setLayout([layout EXCEPT !.elements = WithoutIndex(layout.elements, selectedIndex)])
            /\ selectedIndex' = U
    /\ UNCHANGED <<edits, suggestions>>
    /\ StoreFrame

\* the default layout after its texts and tag have been deleted and
\* handleBgColorChange(color) has been called
RecoloredLayout(color) ==
    [id |-> "default-layout",
     elements |-> <<El("background", "", U, U, U, U, "", U, color)>>]

\* the newest n entries of the history after the background colour has been
\* switched between white and black many times
RecoloredHistory(n) ==
    [i \in 1..n |-> RecoloredLayout(IF (n - i) % 2 = 0 THEN White ELSE Black)]

\* the store as loaded, one entry short of the history's capacity and at
\* capacity
StoreHistories ==
    {<<DefaultLayout>>, RecoloredHistory(MAX_HISTORY - 1),
     RecoloredHistory(MAX_HISTORY)}

StoreInit ==
    /\ history \in StoreHistories
    /\ historyIndex = Len(history) - 1
    /\ layout = history[Len(history)]
    /\ validationResult = NullResult
    /\ isLoading = FALSE
    /\ canvasSize = "1080x1920"
    /\ isAlcohol = FALSE
    /\ selectedChannel = "facebook_feed"
    /\ inflight = EmptyBag
    /\ timer = [pending |-> TRUE, layout |-> history[Len(history)],
                channel |-> "facebook_feed"]
    /\ showExportDialog = FALSE
    /\ exportChannels = {"facebook_feed"}
    /\ isExporting = FALSE
    /\ exportStart = NoExport
    /\ batch = NoBatch
    /\ console = {}
    /\ calls = {}
    /\ edits = 0
    /\ fx = NoFx
    /\ selectedIndex = U
    /\ snap = NoSnap
    /\ op = NoOp
    /\ burst = NoBurst
    /\ thrown = {}
    /\ suggestions = <<>>

\* the store's operations called in any order
StoreNext ==
    \/ \E l \in StoreLayouts : StoreSetLayout(l)
    \/ \E id \in StoreIds : updateElement(id, [x |-> 20])
    \/ addElement(AssetElement)
    \/ \E id \in StoreIds : removeElement(id)
    \/ setSuggestions(GeneratedSuggestions)
    \/ \E id \in StoreIds : selectSuggestion(id)
    \/ StoreUndo
    \/ StoreRedo

SpecStore == StoreInit /\ [][StoreNext]_vars

\* CreativeCanvas: selecting and deleting elements, with layouts loaded from
\* the suggestions and undo/redo
CanvasNext ==
    \/ setSuggestions(GeneratedSuggestions)
    \/ \E id \in StoreIds : selectSuggestion(id)
    \/ \E index \in 0..3 : SelectElement(index)
    \/ deleteElement
    \/ StoreUndo
    \/ StoreRedo

SpecCanvas == Init /\ [][CanvasNext]_vars

-----------------------------------------------------------------------------
(* Geometry: snapping.  A pixel quantity is an integer number of hundredths *)
(* of a pixel, so that percentages of the canvas and halves of them are     *)
(* exact.                                                                   *)

\* hundredths of a pixel in n pixels
Px(n) == n * 100

\* (pct / 100) * total, for a total in pixels
pctToPx(pct, total) == pct * total

Abs(v) == IF v < 0 THEN -v ELSE v

\* CANVAS_CONFIGS[size].width
CanvasWidth(size) ==
    CASE size = "1080x1080" -> 1080
      [] size = "1080x1920" -> 1080
      [] size = "1200x628" -> 1200

\* CANVAS_CONFIGS[size].height
CanvasHeight(size) ==
    CASE size = "1080x1080" -> 1080
      [] size = "1080x1920" -> 1920
      [] size = "1200x628" -> 628

\* SAFE_ZONES[size].top
SafeZoneTop(size) == IF size = "1080x1920" THEN 200 ELSE 0

\* SAFE_ZONES[size].bottom
SafeZoneBottom(size) == IF size = "1080x1920" THEN 250 ELSE 0

SNAP_THRESHOLD == 10

\* SNAP_CONFIG.threshold
SnapConfigThreshold == 10

\* v || d
OrDefault(v, d) == IF v = U \/ v = 0 THEN d ELSE v

\* a snap point: a coordinate it does not carry is U
SnapPoint(x, y, type) == [x |-> x, y |-> y, type |-> type]

\* the six points getSnapPoints pushes for one element
ElementSnapPoints(elem, canvasWidth, canvasHeight) ==
    LET x == pctToPx(elem.x, canvasWidth)
        y == pctToPx(elem.y, canvasHeight)
        w == pctToPx(OrZero(elem.width), canvasWidth)
        h == pctToPx(OrZero(elem.height), canvasHeight)
    IN  << SnapPoint(x, U, "element"),
           SnapPoint(x + w \div 2, U, "element"),
           SnapPoint(x + w, U, "element"),
           SnapPoint(U, y, "element"),
           SnapPoint(U, y + h \div 2, "element"),
           SnapPoint(U, y + h, "element") >>

RECURSIVE ElementPointsFrom(_, _, _, _, _)
\* elements.forEach from position i on (index i - 1 in the code)
ElementPointsFrom(elements, canvasWidth, canvasHeight, excludeIndex, i) ==
    IF i > Len(elements) THEN <<>>
    ELSE LET elem == elements[i]
             skip == \/ i - 1 = excludeIndex
                     \/ elem.type = "background"
                     \/ elem.x = U
                     \/ elem.y = U
         IN  (IF skip THEN <<>>
              ELSE ElementSnapPoints(elem, canvasWidth, canvasHeight))
             \o ElementPointsFrom(elements, canvasWidth, canvasHeight,
                                  excludeIndex, i + 1)

\* getSnapPoints(elements, canvasWidth, canvasHeight, excludeIndex), canvas
\* dimensions in pixels
getSnapPoints(elements, canvasWidth, canvasHeight, excludeIndex) ==
    LET margin == canvasWidth * 5
    IN  << SnapPoint(Px(canvasWidth) \div 2, U, "center"),
           SnapPoint(U, Px(canvasHeight) \div 2, "center"),
           SnapPoint(margin, U, "guide"),
           SnapPoint(Px(canvasWidth) - margin, U, "guide"),
           SnapPoint(U, margin, "guide"),
           SnapPoint(U, Px(canvasHeight) - margin, "guide"),
           SnapPoint(U, Px(SafeZoneTop("1080x1920")), "safe-zone"),
           SnapPoint(U, Px(canvasHeight) - Px(SafeZoneBottom("1080x1920")),
                     "safe-zone") >>
        \o ElementPointsFrom(elements, canvasWidth, canvasHeight, excludeIndex, 1)

RECURSIVE CheckXFrom(_, _, _, _, _)
\* the loop "Check X snap points" from snapPoints[i] on
CheckXFrom(currentX, elementWidth, snapPoints, threshold, i) ==
    IF i > Len(snapPoints) THEN [pos |-> currentX, snapped |-> U]
    ELSE LET px == snapPoints[i].x
         IN  IF px = U
             THEN CheckXFrom(currentX, elementWidth, snapPoints, threshold, i + 1)
             ELSE IF Abs(currentX - px) < threshold
             THEN [pos |-> px, snapped |-> px]
             ELSE IF Abs(currentX + elementWidth \div 2 - px) < threshold
             THEN [pos |-> px - elementWidth \div 2, snapped |-> px]
             ELSE IF Abs(currentX + elementWidth - px) < threshold
             THEN [pos |-> px - elementWidth, snapped |-> px]
             ELSE CheckXFrom(currentX, elementWidth, snapPoints, threshold, i + 1)

RECURSIVE CheckYFrom(_, _, _, _, _)
\* the loop "Check Y snap points" from snapPoints[i] on
CheckYFrom(currentY, elementHeight, snapPoints, threshold, i) ==
    IF i > Len(snapPoints) THEN [pos |-> currentY, snapped |-> U]
    ELSE LET py == snapPoints[i].y
         IN  IF py = U
             THEN CheckYFrom(currentY, elementHeight, snapPoints, threshold, i + 1)
             ELSE IF Abs(currentY - py) < threshold
             THEN [pos |-> py, snapped |-> py]
             ELSE IF Abs(currentY + elementHeight \div 2 - py) < threshold
             THEN [pos |-> py - elementHeight \div 2, snapped |-> py]
             ELSE IF Abs(currentY + elementHeight - py) < threshold
             THEN [pos |-> py - elementHeight, snapped |-> py]
             ELSE CheckYFrom(currentY, elementHeight, snapPoints, threshold, i + 1)

\* findSnapPosition scanning the points from the last one to the first
findSnapPosition_LastFirst(currentX, currentY, elementWidth, elementHeight, snapPoints, threshold) ==
    LET n == Len(snapPoints)
        reversed == [i \in 1..n |-> snapPoints[n + 1 - i]]
        sx == CheckXFrom(currentX, elementWidth, reversed, threshold, 1)
        sy == CheckYFrom(currentY, elementHeight, reversed, threshold, 1)
    IN  [x |-> sx.pos, y |-> sy.pos, snappedX |-> sx.snapped,
         snappedY |-> sy.snapped]

findSnapPosition(currentX, currentY, elementWidth, elementHeight, snapPoints, threshold) ==
    LET sx == CheckXFrom(currentX, elementWidth, snapPoints, threshold, 1)
        sy == CheckYFrom(currentY, elementHeight, snapPoints, threshold, 1)
    IN  [x |-> sx.pos, y |-> sy.pos, snappedX |-> sx.snapped,
         snappedY |-> sy.snapped]

\* CreativeCanvas.handleDrag(index, newX, newY) for an element that exists:
\* the returned position and the snap lines it shows
handleDrag(index, newX, newY) ==
    LET width == CanvasWidth(canvasSize)
        height == CanvasHeight(canvasSize)
        centerX == Px(width) \div 2
        centerY == Px(height) \div 2
        element == layout.elements[index + 1]
        elemWidth == pctToPx(OrDefault(element.width, 20), width)
        elemHeight == pctToPx(OrDefault(element.height, 10), height)
        elemCenterX == newX + elemWidth \div 2
        elemCenterY == newY + elemHeight \div 2
        T == Px(SNAP_THRESHOLD)
        toCenterX == Abs(elemCenterX - centerX) < T
        toCenterY == Abs(elemCenterY - centerY) < T
        toLeft == Abs(newX) < T
        toTop == Abs(newY) < T
        toRight == Abs(newX + elemWidth - Px(width)) < T
        toBottom == Abs(newY + elemHeight - Px(height)) < T
    IN  [x |-> IF toRight THEN Px(width) - elemWidth
               ELSE IF toLeft THEN 0
               ELSE IF toCenterX THEN centerX - elemWidth \div 2
               ELSE newX,
         y |-> IF toBottom THEN Px(height) - elemHeight
               ELSE IF toTop THEN 0
               ELSE IF toCenterY THEN centerY - elemHeight \div 2
               ELSE newY,
         snapX |-> IF toRight THEN Px(width)
                   ELSE IF toLeft THEN 0
                   ELSE IF toCenterX THEN centerX
                   ELSE U,
         snapY |-> IF toBottom THEN Px(height)
                   ELSE IF toTop THEN 0
                   ELSE IF toCenterY THEN centerY
                   ELSE U]

\* what an operation of the geometry layer leaves alone
SnapFrame ==
    UNCHANGED <<storeVars, inflight, timer, showExportDialog, exportChannels,
                isExporting, exportStart, batch, console, calls, edits, fx,
                selectedIndex, op, burst, thrown, suggestions>>

\* an element is dragged to (newX, newY): handleDrag
DragMove(index, newX, newY) ==
    /\ snap.stage = "off"
    /\ layout # NullLayout
    /\ index + 1 \in 1..Len(layout.elements)
    /\ snap' = [stage |-> "drag", index |-> index, x |-> newX, y |-> newY,
                width |-> pctToPx(OrDefault(layout.elements[index + 1].width, 20),
                                  CanvasWidth(canvasSize)),
                height |-> pctToPx(OrDefault(layout.elements[index + 1].height, 10),
                                   CanvasHeight(canvasSize)),
                points |-> <<>>,
                out |-> handleDrag(index, newX, newY)]
    /\ SnapFrame

\* findSnapPosition for the element at index dragged to (newX, newY), with the
\* points of getSnapPoints for the other elements and the default threshold
SnapOnCanvas(index, newX, newY) ==
    /\ snap.stage = "off"
    /\ layout # NullLayout
    /\ index + 1 \in 1..Len(layout.elements)
    /\ LET width == CanvasWidth(canvasSize)
           height == CanvasHeight(canvasSize)
           element == layout.elements[index + 1]
           w == pctToPx(OrDefault(element.width, 20), width)
           h == pctToPx(OrDefault(element.height, 10), height)
           points == getSnapPoints(layout.elements, width, height, index)
       IN  snap' = [stage |-> "canvas", index |-> index, x |-> newX, y |-> newY,
                    width |-> w, height |-> h, points |-> points,
                    out |-> findSnapPosition(newX, newY, w, h, points,
                                             Px(SnapConfigThreshold))]
    /\ SnapFrame

\* findSnapPosition called with any list of points and the default threshold
FindSnap(currentX, currentY, elementWidth, elementHeight, snapPoints) ==
    /\ snap.stage = "off"
    /\ snap' = [stage |-> "find", index |-> U, x |-> currentX, y |-> currentY,
                width |-> elementWidth, height |-> elementHeight,
                points |-> snapPoints,
                out |-> findSnapPosition(currentX, currentY, elementWidth,
                                         elementHeight, snapPoints,
                                         Px(SnapConfigThreshold))]
    /\ SnapFrame

\* widths and heights (percent) of the dragged element
DragWidths == {U, 3, 40, 98, 100}

DragHeights == {10}

DragLayouts ==
    {[id |-> "drag",
      elements |-> <<El("background", "", U, U, U, U, "", U, White),
                     El("packshot", "p.png", 10, 10, w, h, "", U, NoColor),
                     El("headline", "", 10, 60, 80, 15, "", 48, Gray800)>>] :
        w \in DragWidths, h \in DragHeights}

\* drop positions (hundredths of a pixel)
DragXs == {-500, 500, 32000, 53200, 70000}

DragYs == {300, 50000, 91300}

\* points handed to findSnapPosition directly
FindPoints ==
    {SnapPoint(Px(100), U, "guide"), SnapPoint(Px(104), U, "element"),
     SnapPoint(Px(110), Px(50), "element"), SnapPoint(U, Px(58), "center")}

RECURSIVE PointLists(_)
\* the lists of n points
PointLists(n) ==
    IF n = 0 THEN {<<>>}
    ELSE {Append(l, q) : l \in PointLists(n - 1), q \in FindPoints}

FindXs == {Px(20), Px(90), Px(103)}

FindYs == {Px(20), Px(52)}

FindWidths == {Px(10), Px(60)}

FindHeights == {Px(8)}

SnapInit ==
    /\ layout \in DragLayouts
    /\ history = <<layout>>
    /\ historyIndex = 0
    /\ validationResult = NullResult
    /\ isLoading = FALSE
    /\ canvasSize \in {"1080x1080", "1080x1920", "1200x628"}
    /\ isAlcohol = FALSE
    /\ selectedChannel = "facebook_feed"
    /\ inflight = EmptyBag
    /\ timer = NoTimer
    /\ showExportDialog = FALSE
    /\ exportChannels = {"facebook_feed"}
    /\ isExporting = FALSE
    /\ exportStart = NoExport
    /\ batch = NoBatch
    /\ console = {}
    /\ calls = {}
    /\ edits = 0
    /\ fx = NoFx
    /\ selectedIndex = U
    /\ snap = NoSnap
    /\ op = NoOp
    /\ burst = NoBurst
    /\ thrown = {}
    /\ suggestions = <<>>

SnapNext ==
    \/ \E newX \in DragXs : \E newY \in DragYs : DragMove(1, newX, newY)
    \/ \E newX \in DragXs : \E newY \in DragYs : SnapOnCanvas(1, newX, newY)
    \/ \E n \in 0..MaxPoints : \E snapPoints \in PointLists(n) :
       \E currentX \in FindXs : \E currentY \in FindYs :
       \E w \in FindWidths : \E h \in FindHeights :
            FindSnap(currentX, currentY, w, h, snapPoints)

SpecSnap == SnapInit /\ [][SnapNext]_vars

-----------------------------------------------------------------------------
(* Properties *)

\* C1: while the stored validationResult has a hard issue no export can be
\* started: handleExport never starts in a state whose stored result has an
\* issue of severity 'hard'.
C1_NoExportWithHardIssue == isExporting => ~exportStart.hard

\* C2: export is permitted only when the stored result was computed for the
\* layout that is in the store and has no hard issue; with no result, or with
\* the result of another layout, handleExport does not start.
C2_ExportOnlyWhenValidated ==
    isExporting => (exportStart.validated /\ ~exportStart.hard)

\* C3: a validation response is stored only if it was computed for the layout
\* that is current when it arrives; a response for an older layout never
\* replaces the stored result.
C3_StaleResponseDiscarded ==
    [][validationResult' # validationResult
        => validationResult'.forLayout = layout']_vars

\* the loop calls applyAutoFix for the issue and the call changes the layout
BatchApplies(panel, l, issue) ==
    /\ l # NullLayout
    /\ issue.code \in MappedCodes(panel)
    /\ ~(panel = "VP" /\ ~issue.fix_suggestion)

RECURSIVE SequentialFix(_, _, _, _)
\* every fix of issues[i..] applied in turn, each to the result of the previous
SequentialFix(panel, l, issues, i) ==
    IF i > Len(issues) THEN l
    ELSE SequentialFix(panel,
                       IF BatchApplies(panel, l, issues[i])
                       THEN FixLayout(panel, l, issues[i]) ELSE l,
                       issues, i + 1)

\* C4: when a Fix All batch ends (and nothing else changed the layout
\* meanwhile) the layout is the one obtained by applying the transform of every
\* issue of the original result in turn, each to the layout the previous fix
\* produced.
C4_FixAllKeepsEveryFix ==
    (batch.pc = "done" /\ batch.clean)
        => layout = SequentialFix(batch.panel, batch.base, batch.issues, 1)

\* the step is a call of applyAutoFix for an issue whose code the panel has
\* no transform for
UnmappedCallStep ==
    \/ \E panel \in Panels : \E issue \in Fixable(validationResult) :
          /\ issue.code \notin MappedCodes(panel)
          /\ ApplyAutoFixClick(panel, issue)
    \/ /\ batch.pc = "running"
       /\ batch.idx <= Len(batch.issues)
       /\ ~BatchSkips(batch.issues[batch.idx])
       /\ batch.issues[batch.idx].code \notin MappedCodes(batch.panel)
       /\ FixAllStep

\* C5: applyAutoFix for an issue whose code has no registered transform
\* leaves layout, history, historyIndex and validationResult unchanged and
\* sends no validation request, in both panels.
C5_UnmappedFixIsNoOp ==
    [][UnmappedCallStep
        => UNCHANGED <<layout, history, historyIndex, validationResult, inflight>>]_vars

\* C5 witness: an applyAutoFix call for an unmapped code has been made on a
\* non-null layout with a stored result (the code was logged).
C5_Witness ==
    /\ "MAX_ELEMENTS" \in console
    /\ ~validationResult.isNull
    /\ layout # NullLayout

\* C6: the caller can tell from what applyAutoFix returns whether the issue
\* was fixed or left unresolved: no two calls with different outcomes resolve
\* with the same value.
C6_UnresolvedIsReported ==
    \A c1 \in calls : \A c2 \in calls : c1.ret = c2.ret => c1.outcome = c2.outcome

InBottomBand(e) == OrZero(e.y) + OrZero(e.height) > 87

FxFixed(code) == fx.stage # "in" /\ fx.issue.code = code

\* C7: after the SAFE_ZONE_BOTTOM_VIOLATION fix no element other than a
\* background or a tag reaches into the bottom band (y + height > 87), and a
\* second application of the fix changes nothing.
C7_BottomFixIdempotent ==
    FxFixed("SAFE_ZONE_BOTTOM_VIOLATION") =>
        /\ \A i \in 1..Len(fx.out.elements) :
              fx.out.elements[i].type \notin {"background", "tesco_tag"}
                  => ~InBottomBand(fx.out.elements[i])
        /\ fx.stage = "refixed" => fx.again = fx.out

\* the issue can have been raised on element e: it names e's kind or names
\* no element
RaisedOn(issue, e) ==
    /\ e.type # "background"
    /\ issue.element_id = <<>> \/ Head(issue.element_id) = e.type

\* C8: on a 1080x1920 canvas the SAFE_ZONE_TOP_VIOLATION fix leaves every
\* element the issue was raised on that had y < 12 with y >= 12 and with its
\* top edge at or below the 200px band, in both resolvers, with or without
\* element_id.
C8_TopFixLeavesBand ==
    (FxFixed("SAFE_ZONE_TOP_VIOLATION") /\ canvasSize = "1080x1920") =>
        \A i \in 1..Len(fx.layout.elements) :
            (/\ RaisedOn(fx.issue, fx.layout.elements[i])
             /\ fx.layout.elements[i].y # U
             /\ fx.layout.elements[i].y < 12)
            => /\ fx.out.elements[i].y >= 12
               /\ fx.out.elements[i].y * CanvasHeight(canvasSize)
                     >= SafeZoneTop(canvasSize) * 100

DrinkawareIndexes(elements) ==
    {i \in 1..Len(elements) : elements[i].type = "drinkaware"}

\* C9: the DRINKAWARE_MISSING fix on a layout without a drinkaware element
\* appends exactly one drinkaware element coloured #000000 and keeps the
\* existing elements and their order; the DRINKAWARE_COLOR_INVALID fix leaves
\* every drinkaware element coloured #000000.
C9_DrinkawareFix ==
    /\ (FxFixed("DRINKAWARE_MISSING") /\ DrinkawareIndexes(fx.layout.elements) = {})
         => /\ Len(fx.out.elements) = Len(fx.layout.elements) + 1
            /\ SubSeq(fx.out.elements, 1, Len(fx.layout.elements)) = fx.layout.elements
            /\ DrinkawareIndexes(fx.out.elements) = {Len(fx.out.elements)}
            /\ fx.out.elements[Len(fx.out.elements)].color = Black
    /\ FxFixed("DRINKAWARE_COLOR_INVALID")
         => \A i \in DrinkawareIndexes(fx.out.elements) :
               fx.out.elements[i].color = Black

\* C9 witness: the DRINKAWARE_MISSING fix has been applied by ValidatorPanel
\* to a layout of three elements none of which is a drinkaware element.
C9_Witness ==
    /\ fx.stage = "fixed"
    /\ fx.panel = "VP"
    /\ fx.issue.code = "DRINKAWARE_MISSING"
    /\ Len(fx.layout.elements) = 3
    /\ DrinkawareIndexes(fx.layout.elements) = {}
    /\ Len(fx.out.elements) = 4

\* brightness (299 R + 587 G + 114 B) / 1000 of a 6-digit colour is above 128
Bright(c) ==
    299 * (16 * c[1] + c[2]) + 587 * (16 * c[3] + c[4]) + 114 * (16 * c[5] + c[6])
        > 128000

\* C10: the WCAG_CONTRAST_FAIL fix colours every headline and subhead #000000
\* when the background's brightness is above 128 and #FFFFFF otherwise, for
\* every 6-hex-digit background colour.
C10_ContrastFixBlackOrWhite ==
    (FxFixed("WCAG_CONTRAST_FAIL") /\ fx.layout.elements[1].color # NoColor) =>
        \A i \in 1..Len(fx.out.elements) :
            IsText(fx.layout.elements[i]) =>
                fx.out.elements[i].color =
                    IF Bright(fx.layout.elements[1].color) THEN Black ELSE White

\* C15: a burst of layout changes, each less than 500 ms after the previous
\* one, causes exactly one validation request, and that request is for the
\* last layout of the burst.
C15_BurstValidatedOnce == ~burst.open => burst.sent = <<burst.last>>

\* C16: for any one layout at most one validation request is in flight,
\* whichever handlers sent the requests.
C16_OneRequestPerLayout ==
    \A r1 \in BagToSet(inflight) :
        /\ CopiesIn(r1, inflight) = 1
        /\ \A r2 \in BagToSet(inflight) : r2.layout = r1.layout => r2 = r1

\* C17: every validation request carries the store's canvasSize, the store's
\* isAlcohol and the channel of the store's selectedChannel.
C17_RequestCarriesStoreContext ==
    \A r \in BagToSet(inflight) :
        /\ r.canvas_size = canvasSize
        /\ r.is_alcohol = isAlcohol
        /\ r.channel = channelMap(selectedChannel)

\* C19: when a validation request fails no function throws to its caller
\* (validateLayout, handleValidate, runValidation, applyAutoFix) and the
\* store's layout and validationResult keep their values.
C19_FailureIsData ==
    [][(\E r \in BagToSet(inflight) : Fail(r))
        => (thrown' = {} /\ UNCHANGED <<layout, validationResult>>)]_vars

\* the store operations that reach setLayout with a non-null layout
LayoutOps ==
    {"setLayout", "addElement", "updateElement", "removeElement", "selectSuggestion"}

\* C12: with a non-null layout L in the store, one layout-changing store
\* operation followed by undo() leaves the store's layout equal to L, also
\* when the history holds MAX_HISTORY entries.
C12_UndoRestoresLayout ==
    (/\ op.name = "undo"
     /\ op.prev \in LayoutOps
     /\ op.prevBefore.layout # NullLayout)
        => layout = op.prevBefore.layout

\* C12 witness: setLayout on a history at capacity, then undo, and the layout
\* is the one before setLayout.
C12_Witness ==
    /\ op.name = "undo"
    /\ op.prev = "setLayout"
    /\ Len(op.prevBefore.history) = MAX_HISTORY
    /\ op.prevBefore.historyIndex = MAX_HISTORY - 1
    /\ layout = op.prevBefore.layout
    /\ layout # BlankLayout

\* C13: undo() then redo() leaves layout, history and historyIndex as they
\* were before the undo, in every state in which canUndo() holds.
C13_UndoRedoRoundTrip ==
    (op.name = "redo" /\ op.prev = "undo")
        => /\ layout = op.prevBefore.layout
           /\ history = op.prevBefore.history
           /\ historyIndex = op.prevBefore.historyIndex

\* C14: after a setLayout with a non-null layout (directly or through
\* addElement, updateElement, removeElement, selectSuggestion) historyIndex is
\* the last index of history and at least 1, canUndo() is true and canRedo()
\* is false.
C14_EditEndsHistory ==
    op.name \in LayoutOps
        => /\ historyIndex = Len(history) - 1
           /\ historyIndex >= 1
           /\ canUndo
           /\ ~canRedo

\* C14 witness: an edit made after an undo, where a redo branch existed.
C14_Witness ==
    /\ op.name = "addElement"
    /\ op.prev = "undo"
    /\ op.before.historyIndex < Len(op.before.history) - 1
    /\ ~canRedo

BackgroundCount(l) ==
    Cardinality({i \in 1..Len(l.elements) : l.elements[i].type = "background"})

\* deleteElement found a background element selected
DeletedOnBackground ==
    /\ op.name = "deleteElement"
    /\ op.before.selectedIndex # U
    /\ op.before.selectedIndex + 1 <= Len(op.before.layout.elements)
    /\ op.before.layout.elements[op.before.selectedIndex + 1].type = "background"

\* C18: CreativeCanvas.deleteElement with a background element selected
\* leaves layout, history and selection unchanged, and no deleteElement lowers
\* the number of background elements of the layout.
C18_DeleteKeepsBackground ==
    /\ DeletedOnBackground
        => /\ layout = op.before.layout
           /\ history = op.before.history
           /\ historyIndex = op.before.historyIndex
           /\ selectedIndex = op.before.selectedIndex
    /\ op.name = "deleteElement"
        => BackgroundCount(layout) >= BackgroundCount(op.before.layout)

\* C18 witness: deleteElement has run with the background of the suggested
\* layout selected.
C18_Witness ==
    /\ DeletedOnBackground
    /\ layout = SuggestedLayout
    /\ selectedIndex = 1

\* C11: whenever the dragged element's centre lies within 10px of
\* canvasWidth/2, the x returned by handleDrag, and by findSnapPosition with
\* the points of getSnapPoints, puts the element's centre exactly on
\* canvasWidth/2
C11_SnapCentersExactly ==
    LET centerX == Px(CanvasWidth(canvasSize)) \div 2
    IN  (/\ snap.stage \in {"drag", "canvas"}
         /\ Abs(snap.x + snap.width \div 2 - centerX) < Px(SNAP_THRESHOLD))
        => snap.out.x + snap.width \div 2 = centerX

C21_SnapPointsExact ==
    snap.stage = "canvas" =>
        LET W == CanvasWidth(canvasSize)
            H == CanvasHeight(canvasSize)
            Lines(pts) ==
                {<<"x", pts[i].x>> : i \in {j \in 1..Len(pts) : pts[j].x # U}}
                \cup {<<"y", pts[i].y>> : i \in {j \in 1..Len(pts) : pts[j].y # U}}
            others == {i \in 1..Len(layout.elements) :
                        /\ i - 1 # snap.index
                        /\ layout.elements[i].type # "background"}
            ElemLines(e) ==
                LET x == pctToPx(e.x, W)
                    y == pctToPx(e.y, H)
                    w == pctToPx(OrZero(e.width), W)
                    h == pctToPx(OrZero(e.height), H)
                IN  {<<"x", x>>, <<"x", x + w \div 2>>, <<"x", x + w>>,
                     <<"y", y>>, <<"y", y + h \div 2>>, <<"y", y + h>>}
            safe == IF SafeZoneTop(canvasSize) = 0 /\ SafeZoneBottom(canvasSize) = 0
                    THEN {}
                    ELSE {<<"y", Px(SafeZoneTop(canvasSize))>>,
                          <<"y", Px(H) - Px(SafeZoneBottom(canvasSize))>>}
        IN  Lines(snap.points) =
                {<<"x", Px(W) \div 2>>, <<"y", Px(H) \div 2>>,
                 <<"x", W * 5>>, <<"x", Px(W) - W * 5>>,
                 <<"y", H * 5>>, <<"y", Px(H) - H * 5>>}
                \cup safe
                \cup UNION {ElemLines(layout.elements[i]) : i \in others}

\* C22: a safe-zone fix (top or bottom) changes only the y of the offending
\* element the issue names: at most one element differs afterwards, it is of
\* the kind the issue names and differs in y alone, and the number and order
\* of the elements are as before
C22_SafeZoneFixTouchesOffender ==
    (/\ fx.stage # "in"
     /\ fx.issue.code \in {"SAFE_ZONE_TOP_VIOLATION", "SAFE_ZONE_BOTTOM_VIOLATION"}
     /\ fx.issue.element_id # <<>>)
    => LET before == fx.layout.elements
           after == fx.out.elements
           changed == {i \in 1..Len(before) : after[i] # before[i]}
       IN  /\ Len(after) = Len(before)
           /\ Cardinality(changed) <= 1
           /\ \A i \in changed :
                /\ before[i].type = Head(fx.issue.element_id)
                /\ after[i] = [before[i] EXCEPT !.y = after[i].y]

\* C23: an entry recorded in history is never changed by a later operation:
\* a step either leaves history as it is or records one new entry after the
\* entries up to historyIndex, which keep their values and order (the redo
\* branch is cut off and, at capacity, the oldest entry evicted); undo and
\* redo change layout and historyIndex only, never history
C23_HistoryIsCopyOnWrite ==
    [][/\ \/ history' = history
          \/ /\ Len(history') >= 1
             /\ \E k \in {0, 1} :
                  /\ k = 1 => historyIndex + 2 > MAX_HISTORY
                  /\ SubSeq(history', 1, Len(history') - 1)
                        = SubSeq(history, 1 + k, historyIndex + 1)
       /\ (op' # op /\ op'.name \in {"undo", "redo"}) =>
            /\ history' = history
            /\ historyIndex' # historyIndex
            /\ layout' = history[historyIndex' + 1]
            /\ UNCHANGED <<validationResult, canvasSize, isAlcohol,
                           selectedChannel, selectedIndex, suggestions>>]_vars

\* undo has run on a full history, right after updateElement had evicted the
\* oldest entry and recorded a new one, and has left the history as it found
\* it
C23_Witness ==
    /\ op.name = "undo"
    /\ op.prev = "updateElement"
    /\ Len(op.prevBefore.history) = MAX_HISTORY
    /\ history = op.before.history
    /\ history # op.prevBefore.history
    /\ historyIndex = op.before.historyIndex - 1

C25_HistoryBounds ==
    /\ 0 <= historyIndex
    /\ historyIndex < Len(history)
    /\ Len(history) <= MAX_HISTORY
    /\ (op.name \in LayoutOps /\ op.before.historyIndex + 1 = MAX_HISTORY) =>
        /\ Len(history) = MAX_HISTORY
        /\ history[MAX_HISTORY] = layout
        /\ SubSeq(history, 1, MAX_HISTORY - 1)
              = SubSeq(op.before.history, 2, MAX_HISTORY)

\* a layout has been recorded into a full history: its oldest entry is gone
\* and the second oldest is now the first
C25_Witness ==
    /\ op.name = "addElement"
    /\ Len(op.before.history) = MAX_HISTORY
    /\ op.before.historyIndex = MAX_HISTORY - 1
    /\ historyIndex = MAX_HISTORY - 1
    /\ history[1] = op.before.history[2]
    /\ history[1] # op.before.history[1]

\* C26: in every state reachable through the store's operations the layout is
\* null or equal in value to history[historyIndex]
C26_LayoutIsCurrentEntry ==
    layout = NullLayout \/ layout = history[historyIndex + 1]

\* undo has run on a store whose layout had been set to null and has put the
\* entry before the current one back as the layout
C26_Witness ==
    /\ op.name = "undo"
    /\ op.before.layout = NullLayout
    /\ layout # NullLayout
    /\ layout = history[historyIndex + 1]
    /\ layout # history[historyIndex + 2]

\* C27: every validation request is sent for the layout that is in the store
\* at the moment of sending, the store writes of the sending handler included
C27_RequestForCurrentLayout ==
    [][\A r \in BagToSet(inflight') :
        CopiesIn(r, inflight') > CopiesIn(r, inflight) => r.layout = layout']_vars

\* C28: isLoading is true in every state in which a request that set it (here
\* the validation requests of App.handleValidate) is still in flight, for
\* every interleaving of the requests
C28_LoadingWhileInFlight ==
    (\E r \in BagToSet(inflight) : r.src = "app") => isLoading

\* C29: the two auto-fix resolvers are equivalent: they map the same codes
\* and, for every layout and issue, the layout one of them produces is the
\* layout the other one produces
C29_ResolversAgree ==
    fx.stage # "in" =>
        /\ DAMappedCodes = VPMappedCodes
        /\ fx.out = FixLayout(IF fx.panel = "DA" THEN "VP" ELSE "DA",
                              fx.layout, fx.issue)

=============================================================================
